---- MODULE Spec2Model ----
(***************************************************************************)
(* Model of src/server.py: the aiohttp handler `archive`, which streams    *)
(* the output of a `zip` child process to an HTTP response, and its        *)
(* teardown helper `_stop_zip`.                                            *)
(*                                                                         *)
(* One handler coroutine runs per request.  Its position is h[r].pc; the   *)
(* positions named in Suspended are the awaits of the source, where the    *)
(* event loop may deliver a cancellation, the client may go away and the   *)
(* child process may make progress.  The child process, the kernel's       *)
(* process table, asyncio's child watcher and the client are modelled as   *)
(* environment actions.                                                    *)
(***************************************************************************)
EXTENDS Integers, Sequences, FiniteSets, TLC

VARIABLES
    h,        \* h[r]: the handler coroutine of request r (locals, position)
    c,        \* c[r]: the client connection and what was put on the wire
    p,        \* p[r]: the child process spawned for request r (OS + asyncio view)
    nextPid,  \* the next process id the kernel hands out
    quota     \* quota[r]: how many times the server may cancel r's handler task

vars == <<h, c, p, nextPid, quota>>

(***************************************************************************)
(* Bounds and program constants                                            *)
(***************************************************************************)
Reqs == {1, 2}            \* request identities
MaxBytes == 3             \* most bytes a producer writes to its stdout
PipeCap == 2              \* capacity of the stdout pipe, in bytes
MaxCancels == 3           \* most cancellations the server delivers to one task
MaxErr == 2               \* most bytes a producer writes to its stderr
ErrPipeCap == 1           \* capacity of the stderr pipe, in bytes
ChunkSize == 2            \* the read size of line 124 (64 KiB), scaled
THROTTLE_KBPS == 0        \* line 26: the default when the environment sets none
LOG_ENABLED == TRUE       \* line 32: LOG defaults to on

SIGTERM == "SIGTERM"
SIGKILL == "SIGKILL"

\* Exceptions that are instances of Exception (caught by `except Exception`).
ExceptionClass == {"IndexError", "HTTPInternalServerError", "HTTPNotFound",
                   "ProcessLookupError", "ConnectionResetError"}
\* SystemExit and CancelledError are BaseException only, so neither is in it.

\* The query values ?raise=... and ?kbps=... the model draws from.
InjTags == {"none", "index", "systemexit"}
KbpsQueries == {"absent", "abc", "-1", "2"}

\* float(s) of line 110: the number, or ValueError.
ParseFloat(s) ==
    CASE s = "-1" -> [ok |-> TRUE, val |-> -1]
      [] s = "0"  -> [ok |-> TRUE, val |-> 0]
      [] s = "2"  -> [ok |-> TRUE, val |-> 2]
      [] OTHER    -> [ok |-> FALSE, val |-> 0]

\* Mutant: a value that does not parse gives rate 0 instead of the default.
EffectiveKbpsZeroOnError(q, dflt) ==
    IF q = "absent" THEN dflt
    ELSE IF ParseFloat(q).ok THEN ParseFloat(q).val ELSE 0

\* Lines 107-112: the effective rate of a request; dflt is the module's
\* THROTTLE_KBPS as the environment set it.
EffectiveKbps(q, dflt) ==
    IF q = "absent" THEN dflt
    ELSE IF ParseFloat(q).ok THEN ParseFloat(q).val ELSE dflt

\* Log records: <<level, which>>.
LogRec(level, what) == <<level, what>>
Logged(hr, rec) == IF LOG_ENABLED THEN hr.log \cup {rec} ELSE hr.log

RECURSIVE Flatten(_)
Flatten(ss) == IF ss = <<>> THEN <<>> ELSE Head(ss) \o Flatten(Tail(ss))
RECURSIVE SumLen(_)
SumLen(ss) == IF ss = <<>> THEN 0 ELSE Len(Head(ss)) + SumLen(Tail(ss))
IsPrefix(s, t) == Len(s) <= Len(t) /\ SubSeq(t, 1, Len(s)) = s
Bytes(a, b) == [i \in 1..(b - a) |-> a + i]    \* the bytes a+1 .. b of the output

\* Line 157, read().decode(errors="ignore"): the text of the first n bytes of
\* what zip writes to its stderr.
StderrText(n) ==
    CASE n = 0 -> ""
      [] n = 1 -> "z"
      [] n = 2 -> "zi"
      [] n = 3 -> "zip"
      [] OTHER -> "zip error"

\* Line 161: the text handed to HTTPInternalServerError (Cyrillic in the
\* source, transliterated here).
ArchiveErrorText == "Oshibka arkhivatsii"

(***************************************************************************)
(* State after construction                                                *)
(***************************************************************************)
\* The handler's locals before it runs.  pc "absent": no such request.
NewHandler(pc0, isdir, inj, kq) ==
    [pc |-> pc0, isdir |-> isdir, inj |-> inj, kbpsq |-> kq, kbps |-> 0,
     throttle |-> THROTTLE_KBPS,
     chunk |-> <<>>, total |-> 0, reads |-> <<>>, spawned |-> 0,
     site |-> "none", pgid |-> 0, exc |-> "none", ret |-> FALSE,
     outcome |-> "none", cancels |-> 0, log |-> {}, tdfail |-> <<>>,
     err |-> "", text |-> "", fin |-> "none", pending |-> "none",
     sz |-> [sent |-> <<>>, res |-> "none", live |-> FALSE]]

\* The connection of a request: open, nothing on the wire yet.
NewConn == [conn |-> "open", status |-> 0, written |-> <<>>, eof |-> FALSE]

\* No child process yet; plan is how many bytes the directory's archive has,
\* errplan how many bytes zip writes to its stderr before it ends.
NoProc(plan) ==
    [state |-> "none", returncode |-> {}, exitcode |-> 0, pid |-> 0, pgid |-> 0,
     plan |-> plan, produced |-> 0, consumed |-> 0, sigs |-> {},
     errplan |-> 0, errproduced |-> 0, errconsumed |-> 0]

\* One request, every input free; the second request never arrives.  Its
\* producer writes nothing to stderr (SpecErr below is about stderr).
Init ==
    /\ \E d \in BOOLEAN, i \in InjTags, k \in KbpsQueries :
          h = [r \in Reqs |-> IF r = 1 THEN NewHandler("idle", d, i, k)
                                       ELSE NewHandler("absent", FALSE, "none", "absent")]
    /\ c = [r \in Reqs |-> NewConn]
    /\ \E n \in 0..MaxBytes : p = [r \in Reqs |-> NoProc(IF r = 1 THEN n ELSE 0)]
    /\ nextPid = 2
    /\ quota = [r \in Reqs |-> MaxCancels]

(***************************************************************************)
(* Exception routing of `archive` (lines 115-195)                          *)
(***************************************************************************)
\* The handler is over: what leaves it is the pending exception, or resp.
Finish(hr) ==
    [hr EXCEPT !.pc = "done",
               !.outcome = IF hr.exc # "none" THEN hr.exc ELSE "returned"]

\* Lines 170-190: exception X raised in the try body is caught by the first
\* matching clause, which logs and calls _stop_zip before re-raising.
Caught(hr, X) ==
    IF X = "CancelledError"
    THEN [hr EXCEPT !.exc = X, !.ret = FALSE, !.site = "exc_cancel", !.pc = "stop",
                    !.log = Logged(hr, LogRec("warning", "cancelled"))]
    ELSE IF X \in ExceptionClass
    THEN [hr EXCEPT !.exc = X, !.ret = FALSE, !.site = "exc_exception", !.pc = "stop",
                    !.log = Logged(hr, LogRec("exception", "unhandled"))]
    ELSE [hr EXCEPT !.exc = X, !.ret = FALSE, !.site = "exc_base", !.pc = "stop",
                    !.log = Logged(hr, LogRec("warning", "baseexception"))]

\* An exception raised inside an except clause replaces the one being handled
\* and goes to the finally clause.
Propagate(hr, X) == [hr EXCEPT !.exc = X, !.ret = FALSE, !.pc = "finally"]

\* contextlib.suppress(Exception) of lines 192 and 194.
Suppressed(X) == X \in ExceptionClass

BodySites == {"disc_check", "disc_write", "fail"}          \* lines 141, 152, 160
HandlerSites == {"exc_cancel", "exc_exception", "exc_base"} \* lines 175, 182, 189

\* What leaves the handler once the _stop_zip call in progress is over.
Primary(hr) ==
    CASE hr.site \in {"disc_check", "disc_write"} -> "returned"
      [] hr.site = "fail" -> "HTTPInternalServerError"
      [] OTHER -> IF hr.exc # "none" THEN hr.exc ELSE "returned"

\* History: the first teardown failure, as <<outcome in progress, cancellations so far>>.
NoteFailure(hr) ==
    IF hr.tdfail = <<>> THEN [hr EXCEPT !.tdfail = <<Primary(hr), hr.cancels>>] ELSE hr

\* _stop_zip returned normally to its call site.
StopReturn(hr) ==
    CASE hr.site \in {"disc_check", "disc_write"} ->       \* lines 142, 153: return resp
            [hr EXCEPT !.ret = TRUE, !.pc = "finally"]
      [] hr.site = "fail" ->                                \* line 161
            Caught([hr EXCEPT !.text = ArchiveErrorText], "HTTPInternalServerError")
      [] hr.site \in HandlerSites ->                        \* lines 176, 183, 190: raise
            [hr EXCEPT !.pc = "finally"]
      [] OTHER -> Finish(hr)                                \* line 195, end of finally

\* Exception X left _stop_zip at its call site.
StopRaise(hr, X) ==
    CASE hr.site \in BodySites -> Caught(hr, X)
      [] hr.site \in HandlerSites -> Propagate(hr, X)
      [] OTHER -> IF Suppressed(X) THEN Finish(hr)
                  ELSE Finish([hr EXCEPT !.exc = X, !.ret = FALSE])

(***************************************************************************)
(* The kernel's process table and asyncio's view of the child              *)
(***************************************************************************)
\* Mutant: the child is left in the server's process group.
start_new_session_off == FALSE

\* line 103, start_new_session=True: the child calls setsid() and leads a
\* group of its own; without it the child stays in the server's group (1).
start_new_session == TRUE
ChildPgid(pid) == IF start_new_session THEN pid ELSE 1

\* proc.returncode is not None (line 48): asyncio has been told of the exit.
HasReturncode(pr) == pr.returncode # {}

\* os.getpgid(proc.pid) of lines 50-53: the group while the pid is in the
\* process table (running or zombie); once reaped the call raises and the
\* except clause leaves pgid = None, written 0 here.
Getpgid(pr) == IF pr.state \in {"running", "zombie"} THEN pr.pgid ELSE 0

\* os.killpg(pgid, sig): every live process of the group receives sig.
Killpg(procs, pgid, sig) ==
    [s \in Reqs |-> IF procs[s].state = "running" /\ procs[s].pgid = pgid
                    THEN [procs[s] EXCEPT !.sigs = @ \cup {sig}]
                    ELSE procs[s]]

\* proc.terminate() / proc.kill(): the one process, if it still runs.
SignalProc(procs, r, sig) ==
    [procs EXCEPT ![r].sigs = IF procs[r].state = "running" THEN @ \cup {sig} ELSE @]

\* Lines 55-58 and 63-66: the group if it is known, else the process.
SendSignal(procs, r, pgid, sig) ==
    IF pgid > 0 THEN Killpg(procs, pgid, sig) ELSE SignalProc(procs, r, sig)

\* os.killpg raises ProcessLookupError when the group no longer exists: the
\* child was reaped, which the watcher thread may do at any moment once the
\* child is a zombie.
KillpgMayFail(pr, pgid) == pgid > 0 /\ pr.state \in {"zombie", "reaped"}
KillpgMustFail(pr, pgid) == pgid > 0 /\ pr.state = "reaped"

\* Exit statuses the child can end with: killed by a signal at any moment,
\* or by itself once it has written what it writes to stderr.
ExitCodes(pr) ==
    IF SIGKILL \in pr.sigs THEN {-9}
    ELSE (IF pr.errproduced = pr.errplan
          THEN {12} \cup (IF pr.produced = pr.plan THEN {0} ELSE {})
          ELSE {})
         \cup (IF SIGTERM \in pr.sigs THEN {-15} ELSE {})

Avail(pr) == pr.produced - pr.consumed
ErrAvail(pr) == pr.errproduced - pr.errconsumed
Min(a, b) == IF a < b THEN a ELSE b

\* The awaits of the source: where the event loop can deliver a cancellation.
Suspended == {"prepare", "spawn", "read", "sleep", "drain", "wait", "stderr",
              "eof", "grace", "killwait", "fin_eof"}
\* Positions between two awaits: the task is running on the event loop.
Internal == {"stop", "finally"}
\* The event loop runs one callback at a time: a task is resumed, cancelled or
\* told of an event only while no other task is between two awaits.
LoopIdle == \A s \in Reqs : h[s].pc \notin Internal
\* proc.communicate() is reading the pipes (lines 61 and 67).
Communicating == {"grace", "killwait"}

(***************************************************************************)
(* archive, lines 70-114                                                   *)
(***************************************************************************)
\* Mutant: the directory check is missing.
IsDirUnchecked(hr) == TRUE

\* line 74
IsDir(hr) == hr.isdir

\* Lines 71-92: resolve the directory; 404 if it is none.
Start(r) ==
    /\ LoopIdle
    /\ h[r].pc = "idle"
    /\ h' = [h EXCEPT ![r] = IF IsDir(@) THEN [@ EXCEPT !.pc = "prepare"]
                             ELSE Finish([@ EXCEPT !.exc = "HTTPNotFound"])]
    /\ UNCHANGED <<c, p, nextPid, quota>>

\* Line 93: the status line and headers go on the wire.
PrepareDone(r) ==
    /\ LoopIdle
    /\ h[r].pc = "prepare"
    /\ h' = [h EXCEPT ![r].pc = "spawn"]
    /\ c' = [c EXCEPT ![r].status = 200]
    /\ UNCHANGED <<p, nextPid, quota>>

\* Lines 116-120: the injected faults, raised inside the try.
Inject(hr) ==
    CASE hr.inj = "index" -> Caught(hr, "IndexError")
      [] hr.inj = "systemexit" -> Caught(hr, "SystemExit")
      [] OTHER -> [hr EXCEPT !.pc = "read"]

\* Lines 98-120: the child exists; kbps and total are set; the try is entered.
SpawnDone(r) ==
    /\ LoopIdle
    /\ h[r].pc = "spawn"
    /\ p' = [p EXCEPT ![r] = [@ EXCEPT !.state = "running", !.pid = nextPid,
                                       !.pgid = ChildPgid(nextPid)]]
    /\ nextPid' = nextPid + 1
    /\ h' = [h EXCEPT ![r] = Inject([@ EXCEPT !.spawned = @ + 1, !.total = 0,
                                              !.kbps = EffectiveKbps(h[r].kbpsq,
                                                                    h[r].throttle)])]
    /\ UNCHANGED <<c, quota>>

(***************************************************************************)
(* archive, the relay loop: lines 123-168                                  *)
(***************************************************************************)
\* line 135: request.transport is None or is_closing()
TransportClosing(cr) == cr.conn = "closed"

\* Mutant: the chunk is handed to the response twice.
CheckAndWriteTwice(hr, cr) ==
    IF cr.conn = "closed"
    THEN <<[hr EXCEPT !.pc = "stop", !.site = "disc_check",
                      !.log = Logged(hr, LogRec("info", "transport closing"))],
           cr>>
    ELSE <<[hr EXCEPT !.pc = "drain"],
           [cr EXCEPT !.written = Append(Append(@, hr.chunk), hr.chunk)]>>

\* Lines 135-145 for the chunk in hand: stop on a closed transport, else hand
\* the chunk to the response.  Yields the handler and the connection.
CheckAndWrite(hr, cr) ==
    IF TransportClosing(cr)
    THEN <<[hr EXCEPT !.pc = "stop", !.site = "disc_check",
                      !.log = Logged(hr, LogRec("info", "transport closing"))],
           cr>>
    ELSE <<[hr EXCEPT !.pc = "drain"],
           [cr EXCEPT !.written = Append(@, hr.chunk)]>>

\* Mutant: the last byte of every chunk is dropped before it is forwarded.
AfterReadTruncates(hr, cr, chunk) ==
    LET cut == SubSeq(chunk, 1, Len(chunk) - 1)
        got == [hr EXCEPT !.chunk = cut, !.total = @ + Len(cut),
                          !.reads = Append(@, cut)]
    IN  IF got.kbps > 0 THEN <<[got EXCEPT !.pc = "sleep"], cr>>
        ELSE IF cr.conn = "closed"
        THEN <<[got EXCEPT !.pc = "stop", !.site = "disc_check",
                           !.log = Logged(got, LogRec("info", "transport closing"))],
               cr>>
        ELSE <<[got EXCEPT !.pc = "drain"],
               [cr EXCEPT !.written = Append(@, cut)]>>

\* Lines 124-133: a read of up to ChunkSize bytes returned k > 0 of them.
AfterRead(hr, cr, chunk) ==
    LET got == [hr EXCEPT !.chunk = chunk, !.total = @ + Len(chunk),
                          !.reads = Append(@, chunk)]
    IN  IF got.kbps > 0 THEN <<[got EXCEPT !.pc = "sleep"], cr>>
        ELSE CheckAndWrite(got, cr)

ReadChunk(r) ==
    /\ LoopIdle
    /\ h[r].pc = "read"
    /\ \E k \in 1..Min(ChunkSize, Avail(p[r])) :
         LET nxt == AfterRead(h[r], c[r], Bytes(p[r].consumed, p[r].consumed + k))
         IN  /\ h' = [h EXCEPT ![r] = nxt[1]]
             /\ c' = [c EXCEPT ![r] = nxt[2]]
             /\ p' = [p EXCEPT ![r].consumed = @ + k]
    /\ UNCHANGED <<nextPid, quota>>

\* Lines 125-126: the pipe is empty and its write end is closed.
ReadEOF(r) ==
    /\ LoopIdle
    /\ h[r].pc = "read"
    /\ Avail(p[r]) = 0
    /\ p[r].state # "running"
    /\ h' = [h EXCEPT ![r].pc = "wait"]
    /\ UNCHANGED <<c, p, nextPid, quota>>

\* Line 133: the pause is over.
SleepDone(r) ==
    /\ LoopIdle
    /\ h[r].pc = "sleep"
    /\ LET nxt == CheckAndWrite(h[r], c[r])
       IN  h' = [h EXCEPT ![r] = nxt[1]] /\ c' = [c EXCEPT ![r] = nxt[2]]
    /\ UNCHANGED <<p, nextPid, quota>>

\* Line 145: resp.write returned.
DrainOk(r) ==
    /\ LoopIdle
    /\ h[r].pc = "drain"
    /\ h' = [h EXCEPT ![r].pc = "read"]
    /\ UNCHANGED <<c, p, nextPid, quota>>

\* Lines 146-152: resp.write raised ConnectionResetError or BrokenPipeError.
WriteFailed(hr) ==
    [hr EXCEPT !.pc = "stop", !.site = "disc_write",
               !.log = Logged(hr, LogRec("info", "write failed"))]

DrainFail(r) ==
    /\ LoopIdle
    /\ h[r].pc = "drain"
    /\ c[r].conn = "closed"
    /\ h' = [h EXCEPT ![r] = WriteFailed(@)]
    /\ UNCHANGED <<c, p, nextPid, quota>>

\* Lines 155-156: rc = await proc.wait()
AfterWait(hr, rc) == [hr EXCEPT !.pc = IF rc # 0 THEN "stderr" ELSE "eof"]

WaitDone(r) ==
    /\ LoopIdle
    /\ h[r].pc = "wait"
    /\ HasReturncode(p[r])
    /\ \E rc \in p[r].returncode : h' = [h EXCEPT ![r] = AfterWait(@, rc)]
    /\ UNCHANGED <<c, p, nextPid, quota>>

\* Lines 157-160: stderr is read to its end, the failure logged, _stop_zip
\* called.
StderrRead(r) ==
    /\ LoopIdle
    /\ h[r].pc = "stderr"
    /\ p[r].state # "running"
    /\ h' = [h EXCEPT ![r] = [@ EXCEPT !.pc = "stop", !.site = "fail",
                                       !.err = StderrText(p[r].errproduced),
                                       !.log = Logged(h[r], LogRec("error", "zip failed"))]]
    /\ p' = [p EXCEPT ![r].errconsumed = p[r].errproduced]
    /\ UNCHANGED <<c, nextPid, quota>>

\* Lines 163-168: the end-of-stream marker is written and resp returned.
EofOk(r) ==
    /\ LoopIdle
    /\ h[r].pc = "eof"
    /\ c[r].conn = "open"
    /\ c' = [c EXCEPT ![r].eof = TRUE]
    /\ h' = [h EXCEPT ![r] = [@ EXCEPT !.pc = "finally", !.ret = TRUE,
                                       !.log = Logged(h[r], LogRec("info", "finished"))]]
    /\ UNCHANGED <<p, nextPid, quota>>

\* Line 163 on a closed transport: write_eof raises ConnectionResetError.
EofFail(r) ==
    /\ LoopIdle
    /\ h[r].pc = "eof"
    /\ c[r].conn = "closed"
    /\ h' = [h EXCEPT ![r] = Caught(@, "ConnectionResetError")]
    /\ UNCHANGED <<c, p, nextPid, quota>>

(***************************************************************************)
(* _stop_zip, lines 47-67                                                  *)
(***************************************************************************)
\* History of the _stop_zip invocation in progress (or the latest one): the
\* signals it sent, in order, how it ended, and whether the producer was
\* running when lines 48-58 ran.
Frame(hr, sent, res, live) ==
    [hr EXCEPT !.sz = [sent |-> sent, res |-> res, live |-> live]]
FrameEnds(hr, res) == [hr EXCEPT !.sz.res = res]

\* Mutant: the timeout branch is taken whether or not communicate() finished.
GraceExpiredAlways(pr) == TRUE

\* Lines 61-62: wait_for raises TimeoutError when the grace period ends
\* before communicate() has finished, that is before the exit is known.
GraceExpired(pr) == ~HasReturncode(pr)

\* Mutant: the early return of line 49 is never taken.
AlreadyExitedNever(pr) == FALSE

\* Line 48: not proc or proc.returncode is not None
AlreadyExited(pr) == HasReturncode(pr)

\* Lines 48-49: nothing to do for a process known to have exited.
StopNoop(r) ==
    /\ h[r].pc = "stop"
    /\ AlreadyExited(p[r])
    /\ h' = [h EXCEPT ![r] = StopReturn(Frame(@, <<>>, "returned", FALSE))]
    /\ UNCHANGED <<c, p, nextPid, quota>>

\* Lines 50-61: SIGTERM is sent and the grace wait begins.
StopTerm(r) ==
    /\ h[r].pc = "stop"
    /\ ~AlreadyExited(p[r])
    /\ LET g == Getpgid(p[r])
       IN  /\ ~KillpgMustFail(p[r], g)
           /\ p' = SendSignal(p, r, g, SIGTERM)
           /\ h' = [h EXCEPT ![r] = [Frame(@, <<SIGTERM>>, "active", p[r].state = "running")
                                        EXCEPT !.pgid = g, !.pc = "grace"]]
    /\ UNCHANGED <<c, nextPid, quota>>

\* Line 56 raising: the group vanished between getpgid and killpg.
StopTermFails(r) ==
    /\ h[r].pc = "stop"
    /\ ~AlreadyExited(p[r])
    /\ KillpgMayFail(p[r], Getpgid(p[r]))
    /\ p' = [p EXCEPT ![r].state = "reaped"]
    /\ h' = [h EXCEPT ![r] = StopRaise(NoteFailure([Frame(@, <<>>, "raised", FALSE)
                                                    EXCEPT !.pgid = Getpgid(p[r])]),
                                        "ProcessLookupError")]
    /\ UNCHANGED <<c, nextPid, quota>>

\* Line 61: communicate() finished within the grace period.
GraceDone(r) ==
    /\ LoopIdle
    /\ h[r].pc = "grace"
    /\ HasReturncode(p[r])
    /\ p' = [p EXCEPT ![r] = [@ EXCEPT !.consumed = p[r].produced,
                                       !.errconsumed = p[r].errproduced]]
    /\ h' = [h EXCEPT ![r] = StopReturn(FrameEnds(@, "returned"))]
    /\ UNCHANGED <<c, nextPid, quota>>

\* Lines 62-67: the grace period ran out; SIGKILL, then wait without limit.
GraceTimeout(r) ==
    /\ LoopIdle
    /\ h[r].pc = "grace"
    /\ GraceExpired(p[r])
    /\ ~KillpgMustFail(p[r], h[r].pgid)
    /\ p' = SendSignal(p, r, h[r].pgid, SIGKILL)
    /\ h' = [h EXCEPT ![r] = [@ EXCEPT !.sz.sent = Append(@, SIGKILL),
                                       !.pc = "killwait"]]
    /\ UNCHANGED <<c, nextPid, quota>>

\* Line 64 raising inside the handler of the timeout.
GraceTimeoutKillFails(r) ==
    /\ LoopIdle
    /\ h[r].pc = "grace"
    /\ GraceExpired(p[r])
    /\ KillpgMayFail(p[r], h[r].pgid)
    /\ p' = [p EXCEPT ![r].state = "reaped"]
    /\ h' = [h EXCEPT ![r] = StopRaise(NoteFailure(FrameEnds(@, "raised")),
                                        "ProcessLookupError")]
    /\ UNCHANGED <<c, nextPid, quota>>

\* Line 67: communicate() finished after the kill.
KillWaitDone(r) ==
    /\ LoopIdle
    /\ h[r].pc = "killwait"
    /\ HasReturncode(p[r])
    /\ p' = [p EXCEPT ![r] = [@ EXCEPT !.consumed = p[r].produced,
                                       !.errconsumed = p[r].errproduced]]
    /\ h' = [h EXCEPT ![r] = StopReturn(FrameEnds(@, "returned"))]
    /\ UNCHANGED <<c, nextPid, quota>>

(***************************************************************************)
(* archive, the finally clause: lines 191-195                              *)
(***************************************************************************)
\* Line 195: _stop_zip is called in the finally clause.
FinStop(hr) == [hr EXCEPT !.pc = "stop", !.site = "finally", !.fin = "stop"]

\* History: the finally clause is entered with this outcome in progress.
FinEntered(hr) == [hr EXCEPT !.fin = "eof", !.pending = Primary(hr)]

\* Line 193: write_eof returns at once when the marker was already sent.
FinallyEnter(r) ==
    /\ h[r].pc = "finally"
    /\ h' = [h EXCEPT ![r] = IF c[r].eof THEN FinStop(FinEntered(@))
                             ELSE [FinEntered(@) EXCEPT !.pc = "fin_eof"]]
    /\ UNCHANGED <<c, p, nextPid, quota>>

\* Line 193 on an open connection: the marker is sent.
FinEofOk(r) ==
    /\ LoopIdle
    /\ h[r].pc = "fin_eof"
    /\ c[r].conn = "open"
    /\ c' = [c EXCEPT ![r].eof = TRUE]
    /\ h' = [h EXCEPT ![r] = FinStop(@)]
    /\ UNCHANGED <<p, nextPid, quota>>

\* Line 193 on a closed connection: the error is suppressed (line 192).
FinEofFail(r) ==
    /\ LoopIdle
    /\ h[r].pc = "fin_eof"
    /\ c[r].conn = "closed"
    /\ h' = [h EXCEPT ![r] = IF Suppressed("ConnectionResetError")
                             THEN FinStop(@)
                             ELSE Finish([@ EXCEPT !.exc = "ConnectionResetError",
                                                   !.ret = FALSE])]
    /\ UNCHANGED <<c, p, nextPid, quota>>

(***************************************************************************)
(* Cancellation of the handler task by the server                          *)
(***************************************************************************)
\* CancelledError thrown into the coroutine at the await it is suspended in.
Cancelled(hr) ==
    LET n == [hr EXCEPT !.cancels = @ + 1]
    IN  CASE hr.pc \in {"prepare", "spawn"} ->       \* outside the try
                Finish([n EXCEPT !.exc = "CancelledError"])
          [] hr.pc \in Communicating -> StopRaise(FrameEnds(n, "raised"), "CancelledError")
          [] hr.pc = "fin_eof" ->                    \* inside finally, not suppressed
                Finish([n EXCEPT !.exc = "CancelledError", !.ret = FALSE])
          [] OTHER -> Caught(n, "CancelledError")    \* the awaits of the try body

Cancel(r) ==
    /\ LoopIdle
    /\ h[r].pc \in Suspended
    /\ h[r].cancels < quota[r]
    /\ h' = [h EXCEPT ![r] = Cancelled(@)]
    /\ UNCHANGED <<c, p, nextPid, quota>>

(***************************************************************************)
(* Environment: the client, the child process, the child watcher, aiohttp  *)
(***************************************************************************)
Running(r) == h[r].pc \notin {"absent", "idle", "done", "closed"}

\* The client goes away.
Disconnect(r) ==
    /\ LoopIdle
    /\ Running(r)
    /\ c[r].conn = "open"
    /\ c' = [c EXCEPT ![r].conn = "closed"]
    /\ UNCHANGED <<h, p, nextPid, quota>>

\* zip writes a byte to its stdout: when the pipe has room, or is being drained.
ProducerWrite(r) ==
    /\ p[r].state = "running"
    /\ SIGKILL \notin p[r].sigs
    /\ p[r].produced < p[r].plan
    /\ Avail(p[r]) < PipeCap \/ h[r].pc \in Communicating
    /\ p' = [p EXCEPT ![r].produced = @ + 1]
    /\ UNCHANGED <<h, c, nextPid, quota>>

\* zip writes a byte to its stderr: when that pipe has room, or is being drained.
ProducerWriteErr(r) ==
    /\ p[r].state = "running"
    /\ SIGKILL \notin p[r].sigs
    /\ p[r].errproduced < p[r].errplan
    /\ ErrAvail(p[r]) < ErrPipeCap \/ h[r].pc \in Communicating
    /\ p' = [p EXCEPT ![r].errproduced = @ + 1]
    /\ UNCHANGED <<h, c, nextPid, quota>>

\* zip ends: done, failed, or killed by a signal.
ProducerExit(r) ==
    /\ p[r].state = "running"
    /\ \E code \in ExitCodes(p[r]) :
          p' = [p EXCEPT ![r] = [@ EXCEPT !.state = "zombie", !.exitcode = code]]
    /\ UNCHANGED <<h, c, nextPid, quota>>

\* The child watcher's waitpid() collects the zombie.
Reap(r) ==
    /\ p[r].state = "zombie"
    /\ p' = [p EXCEPT ![r].state = "reaped"]
    /\ UNCHANGED <<h, c, nextPid, quota>>

\* The watcher's callback runs on the loop: proc.returncode is set.
Notify(r) ==
    /\ LoopIdle
    /\ p[r].state = "reaped"
    /\ ~HasReturncode(p[r])
    /\ p' = [p EXCEPT ![r].returncode = {p[r].exitcode}]
    /\ UNCHANGED <<h, c, nextPid, quota>>

\* The status of an exception aiohttp turns into a response.
HttpStatus(outcome) ==
    CASE outcome = "HTTPNotFound" -> 404
      [] outcome = "HTTPInternalServerError" -> 500
      [] OTHER -> 0

\* What the client reads as the status: the first status line on the wire.
Respond(r) ==
    /\ LoopIdle
    /\ h[r].pc = "done"
    /\ h' = [h EXCEPT ![r].pc = "closed"]
    /\ c' = [c EXCEPT ![r].status = IF @ = 0 THEN HttpStatus(h[r].outcome) ELSE @]
    /\ UNCHANGED <<p, nextPid, quota>>

Next ==
    \E r \in Reqs :
        \/ Start(r) \/ PrepareDone(r) \/ SpawnDone(r)
        \/ ReadChunk(r) \/ ReadEOF(r) \/ SleepDone(r) \/ DrainOk(r) \/ DrainFail(r)
        \/ WaitDone(r) \/ StderrRead(r) \/ EofOk(r) \/ EofFail(r)
        \/ StopNoop(r) \/ StopTerm(r) \/ StopTermFails(r)
        \/ GraceDone(r) \/ GraceTimeout(r) \/ GraceTimeoutKillFails(r) \/ KillWaitDone(r)
        \/ FinallyEnter(r) \/ FinEofOk(r) \/ FinEofFail(r)
        \/ Cancel(r)
        \/ Disconnect(r) \/ ProducerWrite(r) \/ ProducerExit(r) \/ Reap(r) \/ Notify(r)
        \/ Respond(r)

Spec == Init /\ [][Next]_vars

\* Two requests in flight: request 1 relays a one-byte archive with pacing
\* and is never cancelled, request 2 has an empty archive and may be cancelled
\* once; either client may go away at any time.
InitTwo ==
    /\ h = [r \in Reqs |-> IF r = 1 THEN NewHandler("idle", TRUE, "none", "2")
                                    ELSE NewHandler("idle", TRUE, "none", "absent")]
    /\ c = [r \in Reqs |-> NewConn]
    /\ p = [r \in Reqs |-> NoProc(IF r = 1 THEN 1 ELSE 0)]
    /\ nextPid = 2
    /\ quota = [r \in Reqs |-> IF r = 1 THEN 0 ELSE 1]

SpecTwo == InitTwo /\ [][Next]_vars

\* One request whose producer also writes to stderr: an existing directory,
\* no injected fault, at most one cancellation.
InitErr ==
    /\ \E k \in {"absent", "2"} :
          h = [r \in Reqs |-> IF r = 1 THEN NewHandler("idle", TRUE, "none", k)
                                       ELSE NewHandler("absent", FALSE, "none", "absent")]
    /\ c = [r \in Reqs |-> NewConn]
    /\ \E n \in 0..MaxBytes, e \in 0..MaxErr :
          p = [r \in Reqs |-> IF r = 1 THEN [NoProc(n) EXCEPT !.errplan = e]
                                       ELSE NoProc(0)]
    /\ nextPid = 2
    /\ quota = [r \in Reqs |-> 1]

NextErr == Next \/ \E r \in Reqs : ProducerWriteErr(r)

SpecErr == InitErr /\ [][NextErr]_vars

\* One request to an existing directory, no injected fault, at most one
\* cancellation: every kind of ?kbps= value against a negative, a zero and a
\* positive THROTTLE_KBPS of the environment.
InitPace ==
    /\ \E k \in KbpsQueries \cup {"0"}, d \in {-1, 0, 2} :
          h = [r \in Reqs |-> IF r = 1
                              THEN [NewHandler("idle", TRUE, "none", k) EXCEPT !.throttle = d]
                              ELSE NewHandler("absent", FALSE, "none", "absent")]
    /\ c = [r \in Reqs |-> NewConn]
    /\ \E n \in 0..MaxBytes : p = [r \in Reqs |-> NoProc(IF r = 1 THEN n ELSE 0)]
    /\ nextPid = 2
    /\ quota = [r \in Reqs |-> 1]

SpecPace == InitPace /\ [][Next]_vars

\* The relay on its own: one request to an existing directory, the client
\* stays connected, the server never cancels the task, and the producer ends
\* by itself once it has written its output.
InitRelay ==
    /\ \E k \in {"absent", "2"} :
          h = [r \in Reqs |-> IF r = 1 THEN NewHandler("idle", TRUE, "none", k)
                                       ELSE NewHandler("absent", FALSE, "none", "absent")]
    /\ c = [r \in Reqs |-> NewConn]
    /\ \E n \in 0..MaxBytes, e \in 0..MaxErr :
          p = [r \in Reqs |-> IF r = 1 THEN [NoProc(n) EXCEPT !.errplan = e]
                                       ELSE NoProc(0)]
    /\ nextPid = 2
    /\ quota = [r \in Reqs |-> 0]

\* The steps of the handler coroutine of request r on that path.
RelayStep(r) ==
    \/ Start(r) \/ PrepareDone(r) \/ SpawnDone(r)
    \/ ReadChunk(r) \/ ReadEOF(r) \/ SleepDone(r) \/ DrainOk(r)
    \/ WaitDone(r) \/ StderrRead(r) \/ EofOk(r)
    \/ StopNoop(r) \/ FinallyEnter(r) \/ FinEofOk(r)
    \/ Respond(r)

\* The steps of zip, the kernel and the child watcher.
ProducerStep(r) ==
    \/ ProducerWrite(r) \/ ProducerWriteErr(r) \/ ProducerExit(r)
    \/ Reap(r) \/ Notify(r)

NextRelay == \E r \in Reqs : RelayStep(r) \/ ProducerStep(r)

\* The event loop resumes a coroutine whose await is ready, the kernel runs a
\* process that can run, the watcher reports an exit.
FairRelay ==
    \A r \in Reqs :
        /\ WF_vars(RelayStep(r))
        /\ WF_vars(ProducerWrite(r)) /\ WF_vars(ProducerWriteErr(r))
        /\ WF_vars(ProducerExit(r))
        /\ WF_vars(Reap(r)) /\ WF_vars(Notify(r))

SpecRelay == InitRelay /\ [][NextRelay]_vars /\ FairRelay

\* Teardown on its own: one request to an existing directory that meets an
\* injected fault or a client disconnect; the server never cancels the task.
InitStop ==
    /\ \E i \in {"none", "index"}, k \in {"absent", "2"} :
          h = [r \in Reqs |-> IF r = 1 THEN NewHandler("idle", TRUE, i, k)
                                       ELSE NewHandler("absent", FALSE, "none", "absent")]
    /\ c = [r \in Reqs |-> NewConn]
    /\ \E n \in 0..MaxBytes, e \in 0..MaxErr :
          p = [r \in Reqs |-> IF r = 1 THEN [NoProc(n) EXCEPT !.errplan = e]
                                       ELSE NoProc(0)]
    /\ nextPid = 2
    /\ quota = [r \in Reqs |-> 0]

\* Every step of the handler coroutine of request r but a cancellation.
HandlerStep(r) ==
    \/ Start(r) \/ PrepareDone(r) \/ SpawnDone(r)
    \/ ReadChunk(r) \/ ReadEOF(r) \/ SleepDone(r) \/ DrainOk(r) \/ DrainFail(r)
    \/ WaitDone(r) \/ StderrRead(r) \/ EofOk(r) \/ EofFail(r)
    \/ StopNoop(r) \/ StopTerm(r) \/ StopTermFails(r)
    \/ GraceDone(r) \/ GraceTimeout(r) \/ GraceTimeoutKillFails(r) \/ KillWaitDone(r)
    \/ FinallyEnter(r) \/ FinEofOk(r) \/ FinEofFail(r)
    \/ Respond(r)

NextStop == \E r \in Reqs : HandlerStep(r) \/ ProducerStep(r) \/ Disconnect(r)

\* The event loop resumes a coroutine whose await is ready (the grace timer
\* included), the watcher reports an exit, and a process sent SIGKILL ends; a
\* process that was not sent it may run for ever.
FairStop ==
    \A r \in Reqs :
        /\ WF_vars(HandlerStep(r))
        /\ WF_vars(ProducerExit(r) /\ SIGKILL \in p[r].sigs)
        /\ WF_vars(Reap(r)) /\ WF_vars(Notify(r))

SpecStop == InitStop /\ [][NextStop]_vars /\ FairStop

(***************************************************************************)
(* Claims                                                                  *)
(***************************************************************************)
Over(r) == h[r].pc \in {"done", "closed"}
Spawned(r) == h[r].spawned > 0
ProducerExited(r) == p[r].state \in {"zombie", "reaped"}
FailureLevel == {"error", "exception"}
FailureLogged(r) == \E rec \in h[r].log : rec[1] \in FailureLevel
DisconnectDetected(r) ==
    \E rec \in h[r].log : rec \in {LogRec("info", "transport closing"),
                                   LogRec("info", "write failed")}

\* C1: whenever the handler has finished after spawning a producer, the
\* producer has exited: no state has a finished handler and a running producer.
C1_NoLeakedProducer ==
    \A r \in Reqs : (Over(r) /\ Spawned(r)) => ProducerExited(r)

\* C2: a handler cancelled after the producer exists, once or several times,
\* ends with the producer exited and with CancelledError leaving the handler.
C2_CancelStopsProducerAndPropagates ==
    \A r \in Reqs :
        (Over(r) /\ Spawned(r) /\ h[r].cancels > 0) =>
            (ProducerExited(r) /\ h[r].outcome = "CancelledError")

\* C3: when the producer exits non-zero after the relay loop ended (the
\* handler raises the internal-failure response), the client observes 500.
C3_ProducerFailureIs500 ==
    \A r \in Reqs :
        (h[r].pc = "closed" /\ h[r].outcome = "HTTPInternalServerError") =>
            c[r].status = 500

\* C4: after a client disconnect was detected in the relay loop, the handler
\* (its task not being cancelled) returns normally, no further chunk is
\* written (the chunk in hand at a failed transport check is never written),
\* the producer is stopped by the return, and no error- or exception-level
\* record is logged.
C4_DisconnectIsQuiet ==
    \A r \in Reqs :
        /\ (DisconnectDetected(r) /\ Over(r) /\ h[r].cancels = 0) =>
              (h[r].outcome = "returned" /\ ProducerExited(r) /\ ~FailureLogged(r))
        /\ LogRec("info", "transport closing") \in h[r].log =>
              Len(c[r].written) = Len(h[r].reads) - 1
        /\ LogRec("info", "write failed") \in h[r].log =>
              c[r].written = h[r].reads

\* C5: for an identifier that is no existing directory the handler fails with
\* 404, no producer is spawned and no 200 headers are sent.
C5_NotFoundSpawnsNothing ==
    \A r \in Reqs :
        (~h[r].isdir /\ h[r].pc \notin {"absent", "idle"}) =>
            /\ Over(r) /\ h[r].outcome = "HTTPNotFound"
            /\ h[r].spawned = 0 /\ p[r].state = "none"
            /\ c[r].status # 200
            /\ h[r].pc = "closed" => c[r].status = 404

C5_Witness ==
    \E r \in Reqs : ~h[r].isdir /\ h[r].pc = "closed" /\ c[r].status = 404

\* C6: for each injected fault class the producer has exited when the fault
\* leaves the handler (its task not being cancelled), and what leaves is that
\* same fault.
InjectedFault(r) ==
    CASE h[r].inj = "index" -> "IndexError"
      [] h[r].inj = "systemexit" -> "SystemExit"
      [] OTHER -> "none"

C6_InjectedFaultAfterTeardown ==
    \A r \in Reqs :
        (Over(r) /\ Spawned(r) /\ h[r].inj # "none" /\ h[r].cancels = 0) =>
            (ProducerExited(r) /\ h[r].outcome = InjectedFault(r))

\* C7: a failure raised while tearing down the producer never replaces the
\* outcome in progress (normal return on disconnect, CancelledError, the
\* fault), as long as no cancellation arrives after that failure.
C7_TeardownFailureNeverMasks ==
    \A r \in Reqs :
        (Over(r) /\ h[r].tdfail # <<>> /\ h[r].tdfail[2] = h[r].cancels) =>
            h[r].outcome = h[r].tdfail[1]

\* C8 as stated: when the client stays connected, the handler is not
\* cancelled, the producer exits with code 0 (and no teardown signal fails),
\* the handler returns with
\* status 200, the bytes written are all the bytes the producer emitted, in
\* order, the byte counter equals their number, and the end-of-stream marker
\* has been written.
CleanRun(r) ==
    /\ Over(r) /\ Spawned(r)
    /\ c[r].conn = "open" /\ h[r].cancels = 0 /\ p[r].returncode = {0}
    /\ h[r].tdfail = <<>>

Delivered(r) ==
    /\ h[r].outcome = "returned" /\ c[r].status = 200
    /\ Flatten(c[r].written) = Bytes(0, p[r].produced)
    /\ p[r].produced = p[r].plan
    /\ h[r].total = p[r].produced
    /\ c[r].eof

C8_Original == \A r \in Reqs : CleanRun(r) => Delivered(r)

\* C8 amended: the same, for a request that carries no fault-injection tag.
C8_SuccessDeliversAll ==
    \A r \in Reqs : (CleanRun(r) /\ h[r].inj = "none") => Delivered(r)

C8_Witness ==
    \E r \in Reqs : /\ CleanRun(r) /\ h[r].inj = "none"
                    /\ Len(c[r].written) >= 2 /\ h[r].total = MaxBytes

\* C9: in every state the chunks written are a prefix of the chunks read, the
\* chunks read are the producer's bytes in order, and no step decreases the
\* byte counter.
ChunksInOrder ==
    \A r \in Reqs : /\ IsPrefix(c[r].written, h[r].reads)
                    /\ Flatten(h[r].reads) = Bytes(0, SumLen(h[r].reads))

C9_OrderedPrefixAndMonotoneCounter ==
    /\ []ChunksInOrder
    /\ [][\A r \in Reqs : h'[r].total >= h[r].total]_vars

C9_Witness ==
    \E r \in Reqs : Len(c[r].written) >= 2 /\ Len(h[r].reads) > Len(c[r].written)

\* C10: with two requests in flight each one that resolved its directory has
\* exactly one producer of its own, in a process group of its own, and every
\* step changes the handler, connection and producer of at most one request:
\* a signal sent by one request's teardown reaches no other request's producer.
OwnProducer ==
    \A r \in Reqs :
        /\ h[r].spawned <= 1
        /\ (h[r].spawned = 1) <=> (p[r].state # "none")
        /\ h[r].pc \notin {"absent", "idle", "prepare", "spawn", "done", "closed"}
              => h[r].spawned = 1
        /\ \A s \in Reqs \ {r} :
              (p[r].state # "none" /\ p[s].state # "none") =>
                  (p[r].pid # p[s].pid /\ p[r].pgid # p[s].pgid)

OthersUntouched ==
    \E r \in Reqs : \A s \in Reqs \ {r} :
        h'[s] = h[s] /\ c'[s] = c[s] /\ p'[s] = p[s]

C10_RequestsIndependent == []OwnProducer /\ [][OthersUntouched]_vars

C10_Witness ==
    \E r \in Reqs : \E s \in Reqs \ {r} :
        /\ p[r].state = "running" /\ p[r].sigs # {}
        /\ p[s].state = "running" /\ p[s].sigs = {}

\* The outcome class a log record belongs to (section 4.5 of the design).
OutcomeClass(rec) ==
    CASE rec = LogRec("info", "finished") -> "success"
      [] rec \in {LogRec("info", "transport closing"),
                  LogRec("info", "write failed")} -> "client-disconnect"
      [] rec = LogRec("error", "zip failed") -> "producer-failure"
      [] rec = LogRec("warning", "cancelled") -> "handler-cancellation"
      [] OTHER -> "unexpected-fault"

RecordedClasses(r) == {OutcomeClass(rec) : rec \in h[r].log}

\* C11: a handler that spawned a producer and has ended (its task never
\* cancelled, no teardown signal failing) has emitted the outcome record of
\* exactly one class: no termination is recorded under two classes.
C11_OneOutcomeClass ==
    \A r \in Reqs :
        (Over(r) /\ Spawned(r) /\ h[r].cancels = 0 /\ h[r].tdfail = <<>>) =>
            Cardinality(RecordedClasses(r)) = 1

\* C12: when the producer exited non-zero having written to its stderr and
\* the handler raises the internal-failure response, the text that response
\* carries is the content drained from the producer's stderr.
C12_DiagnosticIsStderr ==
    \A r \in Reqs :
        (h[r].exc = "HTTPInternalServerError" /\ p[r].errproduced > 0) =>
            h[r].text = StderrText(p[r].errproduced)

\* C13: whenever the handler has ended after spawning a producer, its finally
\* clause attempted the end-of-stream write and then _stop_zip, and what left
\* the handler is the outcome that was in progress when the clause was entered.
C13_FinalizationAlwaysComplete ==
    \A r \in Reqs :
        (Over(r) /\ Spawned(r)) =>
            (h[r].fin = "stop" /\ h[r].outcome = h[r].pending)

\* One _stop_zip invocation sends nothing, the graceful signal, or the
\* graceful signal and then the forceful one.
StopSignalsInOrder ==
    \A r \in Reqs : h[r].sz.sent \in {<<>>, <<"SIGTERM">>, <<"SIGTERM", "SIGKILL">>}

\* This step of request r's handler sends the forceful signal.
KillSent(r) == Len(h'[r].sz.sent) = 2 /\ Len(h[r].sz.sent) < 2

\* This step of request r's handler is a normal return of _stop_zip.
StopReturns(r) ==
    /\ h[r].pc \in {"stop", "grace", "killwait"}
    /\ h'[r] # h[r]
    /\ h'[r].sz.res = "returned"

ReturnsOnlyWhenExited ==
    \A r \in Reqs : StopReturns(r) => (ProducerExited(r)' /\ HasReturncode(p[r])')

\* C14 as stated: within one invocation the forceful signal follows the
\* graceful one and is sent only while the process has not exited (a process
\* that exited within the grace period is never sent it), and _stop_zip returns
\* normally only when the process has exited.
C14_Original ==
    /\ []StopSignalsInOrder
    /\ [][\A r \in Reqs : KillSent(r) => (h[r].pc = "grace" /\ p[r].state = "running")]_vars
    /\ [][ReturnsOnlyWhenExited]_vars

\* C14 amended: the same, the forceful signal being sent only while
\* communicate() has not finished, that is while the exit is not yet known to
\* asyncio (the process itself may have exited just before).
C14_EscalationOrder ==
    /\ []StopSignalsInOrder
    /\ [][\A r \in Reqs : KillSent(r) => (h[r].pc = "grace" /\ ~HasReturncode(p[r]))]_vars
    /\ [][\A r \in Reqs : (h[r].pc = "grace" /\ HasReturncode(p[r])) => ~KillSent(r)]_vars
    /\ [][ReturnsOnlyWhenExited]_vars

\* An invocation that escalated to the forceful signal has returned normally.
C14_Witness ==
    \E r \in Reqs : /\ h[r].sz.sent = <<"SIGTERM", "SIGKILL">> /\ h[r].sz.res = "returned"
                    /\ p[r].exitcode = -9

\* The exit status is known to the handler: the latest _stop_zip invocation
\* returned normally, or proc.wait() has returned.
ExitKnown ==
    \A r \in Reqs :
        (h[r].sz.res = "returned" \/ h[r].pc \in {"stderr", "eof"}) => HasReturncode(p[r])

\* A step of _stop_zip entered with the exit status known sends no signal,
\* awaits nothing, leaves the process and the connection as they are, and
\* returns normally.
NoopWhenExited ==
    \A r \in Reqs :
        (h[r].pc = "stop" /\ HasReturncode(p[r]) /\ h'[r] # h[r]) =>
            /\ p' = p /\ c' = c
            /\ h'[r].sz.sent = <<>> /\ h'[r].sz.res = "returned"
            /\ h'[r].pc \notin Suspended

\* C15: _stop_zip is idempotent.  Once an invocation returned normally, or the
\* handler awaited the exit code, the exit status is known and stays known,
\* and every _stop_zip invocation with the exit status known is a no-op.
C15_StopZipIdempotent ==
    /\ []ExitKnown
    /\ [][\A r \in Reqs : HasReturncode(p[r]) => p'[r].returncode = p[r].returncode]_vars
    /\ [][NoopWhenExited]_vars

\* The invocation of the finally clause was a no-op after an earlier
\* invocation had signalled the producer and returned.
C15_Witness ==
    \E r \in Reqs : /\ Over(r) /\ h[r].fin = "stop" /\ h[r].cancels = 0
                    /\ h[r].sz.sent = <<>> /\ h[r].sz.res = "returned"
                    /\ SIGTERM \in p[r].sigs

\* C16: the byte counter counts only chunks handed to the response: once the
\* handler has emitted a record (each reports the counter as sent=...), the
\* counter equals the total length of the chunks written, a chunk that was read
\* but not written not being counted.
C16_CounterCountsWrittenBytes ==
    \A r \in Reqs : h[r].log # {} => h[r].total = SumLen(c[r].written)

\* C17: a response write failing on a reset connection is a client
\* disconnect: the ConnectionResetError never becomes the exception the handler
\* is raising, and a handler that recorded a failed write (its task never
\* cancelled, no teardown signal failing) returns normally with no error- or
\* exception-level record.
C17_FailedWriteIsDisconnect ==
    \A r \in Reqs :
        /\ h[r].exc # "ConnectionResetError"
        /\ (/\ LogRec("info", "write failed") \in h[r].log
            /\ Over(r) /\ h[r].cancels = 0 /\ h[r].tdfail = <<>>) =>
               (h[r].outcome = "returned" /\ ~FailureLogged(r))

\* The rate the request asks for: its ?kbps= value when that is a number,
\* else the configured default.
ExpectedRate(r) ==
    CASE h[r].kbpsq = "2" -> 2
      [] h[r].kbpsq = "0" -> 0
      [] h[r].kbpsq = "-1" -> -1
      [] OTHER -> h[r].throttle

\* This step checks the connection for the chunk in hand: it writes the chunk
\* or finds the transport closing.
ChunkChecked(r) ==
    \/ c'[r].written # c[r].written
    \/ h'[r].site = "disc_check" /\ h[r].site # "disc_check"

\* C18: with a positive effective rate every chunk read is followed by a
\* pause, and the connection check and the write of the chunk come after that
\* pause; with a zero or negative rate there is never a pause and the check
\* follows the read at once.  The write happens only if the check found the
\* connection open.
C18_PauseCheckWrite ==
    /\ [](\A r \in Reqs : h[r].pc = "sleep" => ExpectedRate(r) > 0)
    /\ [][\A r \in Reqs :
            (h'[r].reads # h[r].reads /\ ExpectedRate(r) > 0) =>
                (h'[r].pc = "sleep" /\ ~ChunkChecked(r))]_vars
    /\ [][\A r \in Reqs :
            ChunkChecked(r) =>
                /\ h[r].pc = (IF ExpectedRate(r) > 0 THEN "sleep" ELSE "read")
                /\ (c'[r].written # c[r].written) <=> (c[r].conn = "open")]_vars

\* A value that does not parse, a positive default: two chunks were written,
\* each after its pause.
C18_Witness ==
    \E r \in Reqs : /\ h[r].kbpsq = "abc" /\ h[r].throttle > 0
                    /\ Len(c[r].written) >= 2 /\ h[r].pc = "sleep"

\* C19: with the client connected, no cancellation and a producer that ends
\* once its output is written, every handler that started eventually reads the
\* end of the producer's output, obtains the exit code and finishes.
C19_RelayNeverDeadlocks ==
    \A r \in Reqs : (h[r].pc = "idle") ~> (HasReturncode(p[r]) /\ Over(r))

\* C20: a _stop_zip invocation that found the producer running and is not
\* cancelled eventually returns normally with the producer exited, and never
\* ends by raising.
C20_StopZipReturns ==
    /\ \A r \in Reqs :
          (h[r].sz.live /\ h[r].sz.res = "active") ~>
              (h[r].sz.live /\ h[r].sz.res = "returned" /\ ProducerExited(r))
    /\ [](\A r \in Reqs : h[r].sz.live => h[r].sz.res # "raised")

====
